---- MODULE Spec2Model ----
(***************************************************************************)
(* Model of litaudioio's decode driver (src/reader.rs: Input, Reader) and  *)
(* of the sample-format adapter (src/ffmpeg/format/sample_format.rs).      *)
(*                                                                         *)
(* The Output Buffer is modelled down to its flat memory: `output.data` is *)
(* the element array of the container, addressed through the packing's     *)
(* strides, so that the pointer copies of copy_frame_to_cursor are writes  *)
(* to flat addresses and a wrong offset, count or stride shows up as a     *)
(* write to the wrong (channel, index) cell.                               *)
(*                                                                         *)
(* The demuxer, the decoder and the converter are the environment: every   *)
(* boundary call answers with any value of its result type, i.e. success   *)
(* or any Error::FFM code (Again, Eof, or a fatal code).                   *)
(***************************************************************************)
EXTENDS Integers, Sequences, FiniteSets, TLC

\* ---------------------------------------------------------------- bounds
MaxEstimate == 1
MaxNbSamples == 2
MaxReads == 2
MaxFrames == 2
MaxFormats == 2

VARIABLES
    pc,                 \* position of the caller / of Reader::read
    T,                  \* generic parameter T: the sample scalar type
    P,                  \* generic parameter P: the sample packing
    Rows,               \* S::Rows::try_to_usize(): 0 is None (dynamic rows)
    channel_count_arg,  \* Reader::open's channel_count: 0 is None
    input,              \* Reader.input, as far as the reader observes it
    output,             \* Reader.output: [rows, cols, data]
    cursor,             \* Reader.cursor: [ptr, rows, cols, row_stride, col_stride]
    converter,          \* Reader.converter: "None" or "Some"
    sample_count,       \* Reader.sample_count
    packet,             \* read's local packet: the stream id it carries
    frame,              \* read's local frame: [id, nb_samples]
    result,             \* what open / read returned: [tag, err]
    hist,               \* history of the run (observation only)
    iter                \* a FormatIter over a codec's format array, with what it yielded

vars == <<pc, T, P, Rows, channel_count_arg, input, output, cursor, converter,
          sample_count, packet, frame, result, hist, iter>>

generics == <<T, P, Rows, channel_count_arg>>

\* ------------------------------------------------------- sample formats
\* The channel counts of the runs: mono and stereo.
ChannelCounts == {1, 2}

ScalarTypes == {"I16", "F32"}
Packings == {"Interleaved", "Deinterleaved"}

av_get_planar_sample_fmt(f) ==
    CASE f = "AV_SAMPLE_FMT_U8"  -> "AV_SAMPLE_FMT_U8P"
      [] f = "AV_SAMPLE_FMT_S16" -> "AV_SAMPLE_FMT_S16P"
      [] f = "AV_SAMPLE_FMT_S32" -> "AV_SAMPLE_FMT_S32P"
      [] f = "AV_SAMPLE_FMT_S64" -> "AV_SAMPLE_FMT_S64P"
      [] f = "AV_SAMPLE_FMT_FLT" -> "AV_SAMPLE_FMT_FLTP"
      [] f = "AV_SAMPLE_FMT_DBL" -> "AV_SAMPLE_FMT_DBLP"
      [] f = "AV_SAMPLE_FMT_NONE" -> "AV_SAMPLE_FMT_NONE"
      [] OTHER -> f

\* impl From<AVSampleFormat> for SampleFormat
SampleFormatFrom(value) ==
    CASE value = "AV_SAMPLE_FMT_NONE" -> "None"
      [] value = "AV_SAMPLE_FMT_U8"   -> "U8(Packed)"
      [] value = "AV_SAMPLE_FMT_S16"  -> "I16(Packed)"
      [] value = "AV_SAMPLE_FMT_S32"  -> "I32(Packed)"
      [] value = "AV_SAMPLE_FMT_S64"  -> "I64(Packed)"
      [] value = "AV_SAMPLE_FMT_FLT"  -> "F32(Packed)"
      [] value = "AV_SAMPLE_FMT_DBL"  -> "F64(Packed)"
      [] value = "AV_SAMPLE_FMT_U8P"  -> "U8(Planar)"
      [] value = "AV_SAMPLE_FMT_S16P" -> "I16(Planar)"
      [] value = "AV_SAMPLE_FMT_S32P" -> "I32(Planar)"
      [] value = "AV_SAMPLE_FMT_S64P" -> "I64(Planar)"
      [] value = "AV_SAMPLE_FMT_FLTP" -> "F32(Planar)"
      [] value = "AV_SAMPLE_FMT_DBLP" -> "F64(Planar)"
      [] value = "AV_SAMPLE_FMT_NB"   -> "None"

\* SampleFormat::from_type::<T, P>()
from_type(t, p) ==
    LET ret == CASE t = "F32" -> "AV_SAMPLE_FMT_FLT"
                 [] t = "F64" -> "AV_SAMPLE_FMT_DBL"
                 [] t = "U8"  -> "AV_SAMPLE_FMT_U8"
                 [] t = "I16" -> "AV_SAMPLE_FMT_S16"
                 [] t = "I32" -> "AV_SAMPLE_FMT_S32"
                 [] t = "I64" -> "AV_SAMPLE_FMT_S64"
                 [] OTHER     -> "AV_SAMPLE_FMT_NONE"
        ret2 == IF p = "Deinterleaved" THEN av_get_planar_sample_fmt(ret) ELSE ret
    IN  SampleFormatFrom(ret2)

\* The formats a decoder may end up producing (input.sample_format()).
DecoderFormats == {"I16(Packed)", "I16(Planar)"}

is_packed(fmt) == fmt \in {"U8(Packed)", "I16(Packed)", "I32(Packed)",
                           "I64(Packed)", "F32(Packed)", "F64(Packed)"}

\* ------------------------------------------------------- error codes
FatalErrors == {"Io", "InvalidData"}
FFErrors == {"Again", "Eof"} \cup FatalErrors
SetupErrors == {"OpenFailed", "NoAudioStream", "NoSampleFormat", "DecoderOpenFailed"}

Ok == [tag |-> "Ok", err |-> "-"]
Err(e) == [tag |-> "Err", err |-> e]
NoResult == [tag |-> "-", err |-> "-"]

\* ------------------------------------------------- the Output Buffer
\* Flat address of cell (c, i) of a rows x cols container of packing P:
\* interleaved storage is column-major (row stride 1, column stride rows),
\* deinterleaved storage is row-major (row stride cols, column stride 1).
RowStride(rows, cols) == IF P = "Interleaved" THEN 1 ELSE cols
ColStride(rows, cols) == IF P = "Interleaved" THEN rows ELSE 1
Addr(rows, cols, c, i) == c * RowStride(rows, cols) + i * ColStride(rows, cols)
ChanOf(rows, cols, a) == IF P = "Interleaved" THEN a % rows ELSE a \div cols
IdxOf(rows, cols, a) == IF P = "Interleaved" THEN a \div rows ELSE a % cols

\* AudioContainer::zeros(Size::new(rows, cols))
Zeros(rows, cols) ==
    [rows |-> rows, cols |-> cols, data |-> [a \in 0..(rows * cols - 1) |-> 0]]

\* The sample at (c, i) of a container.
At(out, c, i) == out.data[Addr(out.rows, out.cols, c, i)]

\* AudioContainer::set_samples(n): the container has n columns afterwards; the
\* cells it had before keep their values, the new ones are zero.
set_samples(out, n) ==
    [rows |-> out.rows, cols |-> n,
     data |-> [a \in 0..(out.rows * n - 1) |->
                 LET c == ChanOf(out.rows, n, a)
                     i == IdxOf(out.rows, n, a)
                 IN  IF i < out.cols THEN At(out, c, i) ELSE 0]]

\* ------------------------------------------------- the Write Cursor
NullCursor(rows, out) ==
    [ptr |-> -1, rows |-> rows, cols |-> 0,
     row_stride |-> RowStride(out.rows, out.cols),
     col_stride |-> ColStride(out.rows, out.cols)]

\* PtrStorageMut::shift_col_to(storage, col_offset, col_count): the view is
\* re-pointed at column col_offset of the storage and spans col_count columns.
shift_col_to(cur, out, col_offset, col_count) ==
    [ptr |-> col_offset * ColStride(out.rows, out.cols),
     rows |-> cur.rows, cols |-> col_count,
     row_stride |-> RowStride(out.rows, out.cols),
     col_stride |-> ColStride(out.rows, out.cols)]

\* cursor.as_row_ptr_mut(c)
as_row_ptr_mut(cur, c) == cur.ptr + c * cur.row_stride

\* ------------------------------------------------- decoded frames
EmptyFrame == [id |-> 0, nb_samples |-> 0]

\* The sample of channel c at position j of the id-th decoded frame.
FrameSample(id, c, j) == id * 100 + c * 10 + j + 1

\* frame.data_ptr(plane)[t]: a packed frame holds all channels interleaved in
\* plane 0, a planar frame holds channel c in plane c.
FrameData(f, plane, t) ==
    IF is_packed(input.sample_format)
    THEN FrameSample(f.id, t % input.channels, t \div input.channels)
    ELSE FrameSample(f.id, plane, t)

\* What the converter writes for channel c, position j of the frame.
ConvertedSample(f, c, j) == 1000 + FrameSample(f.id, c, j)

\* data with the writes w (a function flat address -> value) applied; a write
\* outside the allocation hits no cell of the buffer.
Store(data, w) ==
    [a \in DOMAIN data |-> IF a \in DOMAIN w THEN w[a] ELSE data[a]]

\* ------------------------------------------------- Reader::open
InitHist ==
    [reads |-> 0, sends |-> 0, recvs |-> 0, received |-> 0, grows |-> 0,
     copies |-> 0, converts |-> 0, allocs |-> 0,
     written |-> {}, base |-> 0, call |-> "-", res |-> "-",
     file |-> [opens |-> FALSE, audio |-> FALSE, formats |-> FALSE,
               picked |-> FALSE, decoder |-> FALSE]]

\* No FormatIter is observed while a Reader runs.
NoIter == [array |-> <<>>, ptr |-> 0, yielded |-> <<>>, last |-> "-", calls |-> 0]

Init ==
    /\ pc = "start"
    /\ T \in ScalarTypes
    /\ P \in Packings
    /\ Rows \in {0} \cup ChannelCounts
    /\ channel_count_arg \in {0} \cup ChannelCounts
    /\ input = [channels |-> 0, sample_format |-> "None",
                estimated_sample_count |-> 0, stream_id |-> "-"]
    /\ output = Zeros(0, 0)
    /\ cursor = [ptr |-> -1, rows |-> 0, cols |-> 0, row_stride |-> 0, col_stride |-> 0]
    /\ converter = "None"
    /\ sample_count = 0
    /\ packet = "-"
    /\ frame = EmptyFrame
    /\ result = NoResult
    /\ hist = InitHist
    /\ iter = NoIter

\* What Input::open meets, step by step: the container opens, it has an audio
\* stream, the codec lists sample formats, the picker finds one among them, the
\* decoder opens.
Files == [opens : BOOLEAN, audio : BOOLEAN, formats : BOOLEAN,
          picked : BOOLEAN, decoder : BOOLEAN]

\* Input::open's result: the error of the first step that fails, in the order
\* of its `?`s, or "Ok".
InputOpenResult_NoStreamCheck(file) ==
    CASE ~file.opens   -> "OpenFailed"
      [] ~file.formats -> "NoSampleFormat"
      [] ~file.picked  -> "NoSampleFormat"
      [] ~file.decoder -> "DecoderOpenFailed"
      [] OTHER         -> "Ok"

InputOpenResult(file) ==
    CASE ~file.opens   -> "OpenFailed"
      [] ~file.audio   -> "NoAudioStream"
      [] ~file.formats -> "NoSampleFormat"
      [] ~file.picked  -> "NoSampleFormat"
      [] ~file.decoder -> "DecoderOpenFailed"
      [] OTHER         -> "Ok"

\* Input::open, called first thing by Reader::open: any of its steps may fail;
\* on success the input exposes the stream's channel count, the decoder's
\* sample format and the estimated sample count.
InputOpen ==
    /\ pc = "start"
    /\ \E file \in Files :
          /\ hist' = [hist EXCEPT !.file = file]
          /\ IF InputOpenResult(file) # "Ok"
             THEN /\ pc' = "open_failed"
                  /\ result' = Err(InputOpenResult(file))
                  /\ UNCHANGED input
             ELSE \E ch \in ChannelCounts, fmt \in DecoderFormats, est \in 0..MaxEstimate :
                  /\ input' = [channels |-> ch, sample_format |-> fmt,
                               estimated_sample_count |-> est, stream_id |-> "audio"]
                  /\ pc' = "reader_open"
                  /\ UNCHANGED result
    /\ UNCHANGED <<generics, iter, output, cursor, converter, sample_count, packet, frame>>

\* The match on (channel_count, S::Rows::try_to_usize()); 0 stands for None.
ChannelCount_ArgFirst(arg, rows, src) ==
    IF arg # 0 THEN arg ELSE IF rows # 0 THEN rows ELSE src

ChannelCount(arg, rows, src) ==
    CASE arg = 0 /\ rows = 0 -> src
      [] arg # 0 /\ rows = 0 -> arg
      [] rows # 0            -> rows

UseConverter_And(src_fmt, dst_fmt, dst_channels, src_channels) ==
    src_fmt # dst_fmt /\ dst_channels # src_channels

UseConverter(src_fmt, dst_fmt, dst_channels, src_channels) ==
    src_fmt # dst_fmt \/ dst_channels # src_channels

\* The rest of Reader::open: destination channel count, the zeroed Output Buffer
\* of the estimated size, the converter (whose construction may fail) and the
\* null cursor of zero columns.
ReaderOpen ==
    /\ pc = "reader_open"
    /\ LET cc  == ChannelCount(channel_count_arg, Rows, input.channels)
           out == Zeros(cc, input.estimated_sample_count)
           use == UseConverter(input.sample_format, from_type(T, P), cc, input.channels)
       IN  \/ /\ output' = out
              /\ converter' = IF use THEN "Some" ELSE "None"
              /\ cursor' = NullCursor(cc, out)
              /\ sample_count' = 0
              /\ pc' = "opened"
              /\ UNCHANGED result
           \/ /\ use
              /\ \E e \in FatalErrors :
                    /\ result' = Err(e)
                    /\ pc' = "open_failed"
              /\ UNCHANGED <<output, converter, cursor, sample_count>>
    /\ hist' = [hist EXCEPT !.allocs = @ + 1]
    /\ UNCHANGED <<generics, iter, input, packet, frame>>

\* ------------------------------------------------- Reader::read
\* The match of read's loop on read_frame's result.
ReadMatch_EofContinues(r) ==
    CASE r = "Again" -> "continue"
      [] r = "Eof"   -> "continue"
      [] r = "Ok"    -> "continue"
      [] OTHER       -> "return"

ReadMatch_AgainEscapes(r) ==
    CASE r = "Again" -> "return"
      [] r = "Eof"   -> "break"
      [] r = "Ok"    -> "continue"
      [] OTHER       -> "return"

ReadMatch_Swallow(r) ==
    CASE r = "Again" -> "continue"
      [] r = "Eof"   -> "break"
      [] r = "Ok"    -> "continue"
      [] OTHER       -> "continue"

ReadMatch(r) ==
    CASE r = "Again" -> "continue"
      [] r = "Eof"   -> "break"
      [] r = "Ok"    -> "continue"
      [] OTHER       -> "return"

\* read_frame returned r to read's loop: next packet read, finalize, or return.
ReadFrameReturns(r) ==
    /\ pc' = CASE ReadMatch(r) = "continue" -> "packet_read"
               [] ReadMatch(r) = "break"    -> "finalize"
               [] ReadMatch(r) = "return"   -> "returned"
    /\ result' = IF ReadMatch(r) = "return" THEN Err(r) ELSE result

Called(call, res) == [hist EXCEPT !.call = call, !.res = res]

\* read is entered: the empty frame and packet are created.
ReadBegin ==
    /\ pc = "opened"
    /\ pc' = "packet_read"
    /\ packet' = "-"
    /\ frame' = EmptyFrame
    /\ UNCHANGED <<generics, iter, input, output, cursor, converter, sample_count, result, hist>>

\* packet.read(format_ctx)?
PacketRead ==
    /\ pc = "packet_read"
    /\ \/ /\ hist.reads < MaxReads
          /\ \E s \in {"audio", "other"} :
                /\ packet' = s
                /\ pc' = "stream_check"
                /\ hist' = [Called("read", "Ok") EXCEPT !.reads = @ + 1]
                /\ UNCHANGED result
       \/ \E e \in FFErrors :
                /\ e = "Again" => hist.reads < MaxReads
                /\ ReadFrameReturns(e)
                /\ hist' = [Called("read", e) EXCEPT !.reads = @ + 1]
                /\ UNCHANGED packet
    /\ UNCHANGED <<generics, iter, input, output, cursor, converter, sample_count, frame>>

BelongsToStream_Always == TRUE

BelongsToStream == packet = input.stream_id

\* if packet.stream_id() != stream.id() { packet.reset(); return Ok(()) }
StreamCheck ==
    /\ pc = "stream_check"
    /\ IF BelongsToStream
       THEN /\ pc' = "send"
            /\ UNCHANGED <<packet, result, hist>>
       ELSE /\ packet' = "-"
            /\ ReadFrameReturns("Ok")
            /\ UNCHANGED hist
    /\ UNCHANGED <<generics, iter, input, output, cursor, converter, sample_count, frame>>

SendMatch_AgainReturns(r) ==
    CASE r = "Ok" -> "proceed"
      [] OTHER    -> "return"

\* The match on packet.send's result.
SendMatch(r) ==
    CASE r = "Again" -> "proceed"
      [] r = "Ok"    -> "proceed"
      [] OTHER       -> "return"

PacketSend ==
    /\ pc = "send"
    /\ \E r \in {"Ok"} \cup FFErrors :
          /\ hist' = [Called("send", r) EXCEPT !.sends = @ + 1]
          /\ IF SendMatch(r) = "proceed"
             THEN pc' = "receive" /\ UNCHANGED result
             ELSE ReadFrameReturns(r)
    /\ UNCHANGED <<generics, iter, input, output, cursor, converter, sample_count, packet, frame>>

\* The match on frame.recieve's result, the condition of the inner loop.
ReceiveMatch(r) ==
    CASE r = "Again" -> "stop"
      [] r = "Ok"    -> "frame"
      [] OTHER       -> "return"

FrameReceive ==
    /\ pc = "receive"
    /\ \/ /\ hist.recvs < MaxFrames
          /\ \E n \in 1..MaxNbSamples :
                /\ frame' = [id |-> hist.recvs + 1, nb_samples |-> n]
                /\ hist' = [Called("receive", "Ok") EXCEPT
                               !.recvs = @ + 1, !.received = @ + n]
                /\ pc' = "grow"
                /\ UNCHANGED result
       \/ \E e \in FFErrors :
                /\ hist' = Called("receive", e)
                /\ IF ReceiveMatch(e) = "stop"
                   THEN ReadFrameReturns("Ok")
                   ELSE ReadFrameReturns(e)
                /\ UNCHANGED frame
    /\ UNCHANGED <<generics, iter, input, output, cursor, converter, sample_count, packet>>

\* ------------------------------------------------- one received frame
\* if self.output.samples() < self.sample_count + frame.nb_samples()
NeedsGrowth_Never == FALSE

NeedsGrowth == output.cols < sample_count + frame.nb_samples

\* self.output.set_samples(self.sample_count + frame.nb_samples())
GrowTarget_FrameOnly == frame.nb_samples

GrowTarget == sample_count + frame.nb_samples

Grow ==
    /\ pc = "grow"
    /\ IF NeedsGrowth
       THEN /\ output' = set_samples(output, GrowTarget)
            /\ hist' = [hist EXCEPT !.grows = @ + 1]
       ELSE UNCHANGED <<output, hist>>
    /\ pc' = "shift"
    /\ UNCHANGED <<generics, iter, input, cursor, converter, sample_count, packet, frame, result>>

\* let buffer_size = self.output.samples() - self.sample_count;
buffer_size_Capacity == output.cols

buffer_size == output.cols - sample_count

\* The column the cursor is shifted to: shift_col_to(&mut output, sample_count, ..)
CursorOffset_AfterCount == sample_count + frame.nb_samples

CursorOffset == sample_count

ShiftCursor ==
    /\ pc = "shift"
    /\ cursor' = shift_col_to(cursor, output, CursorOffset, buffer_size)
    /\ pc' = "copy"
    /\ UNCHANGED <<generics, iter, input, output, converter, sample_count, packet, frame,
                   result, hist>>

\* The element count of the interleaved copy: nb_samples * cursor.rows().
InterleavedCount == frame.nb_samples * cursor.rows

\* The element count of each per-channel copy of the planar path.
PlanarCount_AllChannels == frame.nb_samples * cursor.rows

PlanarCount == frame.nb_samples

\* The writes of the direct copy (converter is None), flat address -> value.
\* Interleaved: one copy_nonoverlapping of InterleavedCount elements from plane 0
\* to the cursor's row 0. Deinterleaved: for each row c of the cursor, in order,
\* one copy of PlanarCount elements from plane c to the cursor's row c.
DirectCopyWrites ==
    IF P = "Interleaved"
    THEN LET dst == as_row_ptr_mut(cursor, 0)
         IN  [a \in dst..(dst + InterleavedCount - 1) |-> FrameData(frame, 0, a - dst)]
    ELSE LET Range(c) == as_row_ptr_mut(cursor, c)..(as_row_ptr_mut(cursor, c) + PlanarCount - 1)
             Last(a) == CHOOSE c \in 0..(cursor.rows - 1) :
                           /\ a \in Range(c)
                           /\ \A d \in 0..(cursor.rows - 1) : a \in Range(d) => d <= c
         IN  [a \in UNION {Range(c) : c \in 0..(cursor.rows - 1)} |->
                 FrameData(frame, Last(a), a - as_row_ptr_mut(cursor, Last(a)))]

\* converter.convert_frame(frame, &mut cursor) on success: nb_samples converted
\* samples for each row of the cursor, written through the cursor's strides.
ConvertWrites ==
    LET Cells == (0..(cursor.rows - 1)) \X (0..(frame.nb_samples - 1))
        A(cell) == cursor.ptr + cell[1] * cursor.row_stride + cell[2] * cursor.col_stride
    IN  [a \in {A(cell) : cell \in Cells} |->
            LET cell == CHOOSE x \in Cells : A(x) = a
            IN  ConvertedSample(frame, cell[1], cell[2])]

\* copy_frame_to_cursor(frame)?
CopyFrameToCursor ==
    /\ pc = "copy"
    /\ IF converter = "None"
       THEN /\ output' = [output EXCEPT !.data = Store(@, DirectCopyWrites)]
            /\ hist' = [hist EXCEPT !.copies = @ + 1,
                                    !.written = DOMAIN DirectCopyWrites,
                                    !.base = sample_count]
            /\ pc' = "count"
            /\ UNCHANGED result
       ELSE \/ /\ output' = [output EXCEPT !.data = Store(@, ConvertWrites)]
               /\ hist' = [Called("convert", "Ok") EXCEPT
                              !.converts = @ + 1,
                              !.written = DOMAIN ConvertWrites,
                              !.base = sample_count]
               /\ pc' = "count"
               /\ UNCHANGED result
            \/ \E e \in FFErrors :
                  /\ hist' = Called("convert", e)
                  /\ ReadFrameReturns(e)
                  /\ UNCHANGED output
    /\ UNCHANGED <<generics, iter, input, cursor, converter, sample_count, packet, frame>>

\* self.sample_count += frame.nb_samples(), then the inner loop receives again.
CountSamples ==
    /\ pc = "count"
    /\ sample_count' = sample_count + frame.nb_samples
    /\ pc' = "receive"
    /\ hist' = [hist EXCEPT !.written = {}, !.base = 0]
    /\ UNCHANGED <<generics, iter, input, output, cursor, converter, packet, frame, result>>

\* The sample count read's last two lines give the returned buffer.
FinalSamples_Remaining == output.cols - sample_count

FinalSamples_Capacity == output.cols

FinalSamples == sample_count

\* self.output.set_samples(self.sample_count); Ok(self.output)
Finalize ==
    /\ pc = "finalize"
    /\ output' = set_samples(output, FinalSamples)
    /\ result' = Ok
    /\ pc' = "returned"
    /\ UNCHANGED <<generics, iter, input, cursor, converter, sample_count, packet, frame, hist>>

Next ==
    \/ InputOpen
    \/ ReaderOpen
    \/ ReadBegin
    \/ PacketRead
    \/ StreamCheck
    \/ PacketSend
    \/ FrameReceive
    \/ Grow
    \/ ShiftCursor
    \/ CopyFrameToCursor
    \/ CountSamples
    \/ Finalize

Spec == Init /\ [][Next]_vars

\* ------------------------------------------------- FormatIter
\* The formats a codec's array holds in front of and behind its terminator.
AVFormats == {"AV_SAMPLE_FMT_S16", "AV_SAMPLE_FMT_S16P", "AV_SAMPLE_FMT_FLT"}

\* FormatIter's sentinel: AVSampleFormat::AV_SAMPLE_FMT_NONE.
Sentinel == "AV_SAMPLE_FMT_NONE"

\* The memory FormatIter::new's pointer points at: MaxFormats + 1 cells with a
\* sentinel among them; the cells behind the first sentinel hold anything.
FormatArrays ==
    {a \in [1..(MaxFormats + 1) -> AVFormats \cup {Sentinel}] :
        \E i \in 1..(MaxFormats + 1) : a[i] = Sentinel}

\* The position of the first sentinel of the array.
FirstSentinel(a) ==
    CHOOSE i \in 1..Len(a) : a[i] = Sentinel /\ \A j \in 1..(i - 1) : a[j] # Sentinel

\* The calls to next made on one iterator.
MaxCalls == MaxFormats + 3

\* Iterator::next for FormatIter: at the sentinel return None and leave the
\* pointer; otherwise convert the entry, advance the pointer, return Some.
FormatIter_next_AdvancesAtSentinel(it) ==
    IF it.array[it.ptr] = Sentinel
    THEN [it EXCEPT !.ptr = @ + 1, !.last = "None", !.calls = @ + 1]
    ELSE [it EXCEPT !.ptr = @ + 1,
                    !.yielded = Append(@, SampleFormatFrom(it.array[it.ptr])),
                    !.last = "Some", !.calls = @ + 1]

FormatIter_next(it) ==
    IF it.array[it.ptr] = Sentinel
    THEN [it EXCEPT !.last = "None", !.calls = @ + 1]
    ELSE [it EXCEPT !.ptr = @ + 1,
                    !.yielded = Append(@, SampleFormatFrom(it.array[it.ptr])),
                    !.last = "Some", !.calls = @ + 1]

\* FormatIter::new(ptr) over a sentinel-terminated array; no Reader is involved.
IterInit ==
    /\ pc = "iter"
    /\ T = "I16" /\ P = "Interleaved" /\ Rows = 0 /\ channel_count_arg = 0
    /\ input = [channels |-> 0, sample_format |-> "None",
                estimated_sample_count |-> 0, stream_id |-> "-"]
    /\ output = Zeros(0, 0)
    /\ cursor = [ptr |-> -1, rows |-> 0, cols |-> 0, row_stride |-> 0, col_stride |-> 0]
    /\ converter = "None"
    /\ sample_count = 0
    /\ packet = "-"
    /\ frame = EmptyFrame
    /\ result = NoResult
    /\ hist = InitHist
    /\ \E a \in FormatArrays :
          iter = [array |-> a, ptr |-> 1, yielded |-> <<>>, last |-> "-", calls |-> 0]

\* One call of next on the iterator.
FormatIterNext ==
    /\ pc = "iter"
    /\ iter.calls < MaxCalls
    /\ iter' = FormatIter_next(iter)
    /\ UNCHANGED <<generics, pc, input, output, cursor, converter, sample_count,
                   packet, frame, result, hist>>

IterNext == FormatIterNext

IterSpec == IterInit /\ [][IterNext]_vars

\* The program is sequential and every boundary call returns: a step that can
\* be taken is eventually taken.
FairSpec == Spec /\ WF_vars(Next)

\* ------------------------------------------------- properties
\* A Reader exists (Reader::open returned Ok) and read has not failed to start.
ReaderStates ==
    {"opened", "packet_read", "stream_check", "send", "receive", "grow", "shift",
     "copy", "count", "finalize", "returned"}

Success == pc = "returned" /\ result = Ok

\* C1: whenever read ends successfully, the returned buffer's valid sample count
\* is the sum of nb_samples over every frame received from the decoder during
\* the run, and its channel count is the destination channel count of open.
C1_ReturnedCountIsSumOfReceivedFrames ==
    Success =>
        /\ output.cols = hist.received
        /\ output.rows = ChannelCount(channel_count_arg, Rows, input.channels)

\* C2: a boundary call reporting an error other than Again and Eof ends read at
\* once with exactly that error (no step follows a return); read returns either
\* an error or the finalized buffer (its column count is the accumulated sample
\* count), and a buffer is returned only by the finalize step.
C2_AllOrNothing ==
    /\ [](/\ hist.res \in FatalErrors => (pc = "returned" /\ result = Err(hist.res))
          /\ pc = "returned" => \/ result.tag = "Err"
                                \/ result = Ok /\ output.cols = sample_count
          /\ result.tag = "Ok" => pc = "returned")
    /\ [][pc # "returned" /\ (result'.tag = "Ok" => pc = "finalize")]_vars

\* C2 witness: a fatal receive error after samples were already written.
C2_Witness ==
    /\ pc = "returned" /\ result.tag = "Err"
    /\ hist.call = "receive" /\ hist.res \in FatalErrors
    /\ sample_count > 0

\* C3: read never returns Again or Eof to its caller.
C3_TransientNeverEscapes ==
    pc = "returned" => result.err \notin {"Again", "Eof"}

\* C3 witness: the converter reported Eof and read returned the buffer.
C3_Witness ==
    Success /\ hist.call = "convert" /\ hist.res = "Eof"

\* C4: as long as the Reader exists the accumulated sample count is at most the
\* buffer's capacity, and right after the growth step the capacity covers the
\* sample count plus the incoming frame.
C4_CountWithinCapacity ==
    /\ pc \in ReaderStates => sample_count <= output.cols
    /\ pc = "shift" => output.cols >= sample_count + frame.nb_samples

\* C4 witness: the growth step has just enlarged a buffer that holds samples.
C4_Witness ==
    /\ pc = "shift" /\ sample_count > 0 /\ hist.grows > 0
    /\ output.cols = sample_count + frame.nb_samples
    /\ output.cols > input.estimated_sample_count

\* C5: a direct copy writes only cells of the buffer whose sample index lies in
\* [sample_count, sample_count + nb_samples), sample_count being the count
\* before the frame is counted: nothing below it, nothing outside the allocation.
C5_DirectCopyStaysInWindow ==
    (pc = "count" /\ converter = "None") =>
        \A a \in hist.written :
            /\ a \in DOMAIN output.data
            /\ IdxOf(output.rows, output.cols, a) >= sample_count
            /\ IdxOf(output.rows, output.cols, a) < sample_count + frame.nb_samples

\* C5 witness: a planar stereo frame copied behind earlier samples after growth.
C5_Witness ==
    /\ pc = "count" /\ converter = "None" /\ P = "Deinterleaved"
    /\ output.rows = 2 /\ sample_count > 0 /\ hist.grows > 0
    /\ hist.written # {}

\* C6: when the decoder delivered more samples than the estimate, at least one
\* growth occurred and read returns exactly the delivered total; and no step
\* changes a sample already counted as valid.
C6_UnderestimateGrowsAndKeepsData ==
    /\ []((Success /\ hist.received > input.estimated_sample_count) =>
             (hist.grows >= 1 /\ output.cols = hist.received))
    /\ [][(pc \in ReaderStates) =>
             (\A c \in 0..(output.rows - 1), i \in 0..(sample_count - 1) :
                 (i < output'.cols => At(output', c, i) = At(output, c, i)))]_vars

\* C7: handling a packet of another stream goes straight back to the packet
\* read: nothing is submitted or received, and the sample count, the buffer and
\* the cursor are unchanged.
C7_ForeignPacketDiscarded ==
    [][(pc = "stream_check" /\ packet # input.stream_id) =>
          /\ pc' = "packet_read"
          /\ sample_count' = sample_count
          /\ output' = output
          /\ cursor' = cursor
          /\ hist'.sends = hist.sends /\ hist'.recvs = hist.recvs
          /\ hist'.call = hist.call]_vars

\* C7 witness: a foreign packet has just been discarded in mid-decode.
C7_Witness ==
    /\ pc = "packet_read" /\ packet = "-"
    /\ hist.call = "read" /\ hist.res = "Ok"
    /\ sample_count > 0

\* C8 as stated: the explicit override first, then the fixed row count, then
\* the source channel count.
C8_ExplicitOverrideFirst ==
    pc \in ReaderStates =>
        output.rows = IF channel_count_arg # 0 THEN channel_count_arg
                      ELSE IF Rows # 0 THEN Rows ELSE input.channels

\* C8 amended: the fixed compile-time row count first, then the explicit
\* override, then the source channel count.
C8_FixedRowsFirst ==
    pc \in ReaderStates =>
        /\ output.rows = IF Rows # 0 THEN Rows
                         ELSE IF channel_count_arg # 0 THEN channel_count_arg
                         ELSE input.channels
        /\ cursor.rows = output.rows

\* C8 witness: an explicit override that differs from the fixed row count.
C8_Witness ==
    /\ pc = "opened" /\ Rows # 0 /\ channel_count_arg # 0
    /\ channel_count_arg # Rows /\ output.rows = Rows

\* C9: the Reader holds a converter exactly when the decoder's format differs
\* from the requested one or the destination channel count differs from the
\* source's; with both equal no frame is ever handed to a converter.
C9_ConverterIffMismatch ==
    pc \in ReaderStates =>
        LET mismatch == \/ input.sample_format # from_type(T, P)
                        \/ output.rows # input.channels
        IN  /\ (converter = "Some") <=> mismatch
            /\ ~mismatch => (hist.converts = 0 /\ hist.call # "convert")
            /\ (~mismatch /\ pc = "count") => hist.copies > 0

\* C9 witness: a frame went through the direct copy of a converter-less Reader.
C9_Witness ==
    /\ pc = "count" /\ converter = "None" /\ hist.copies > 0
    /\ input.sample_format = from_type(T, P) /\ output.rows = input.channels

\* C10: Eof on the very first packet read makes read succeed with 0 valid
\* samples, nothing having been submitted, received, grown or copied.
C10_EmptyStream ==
    (hist.reads = 1 /\ hist.call = "read" /\ hist.res = "Eof") =>
        /\ pc \in {"finalize", "returned"}
        /\ pc = "returned" => (result = Ok /\ output.cols = 0)
        /\ sample_count = 0
        /\ hist.sends = 0 /\ hist.recvs = 0 /\ hist.grows = 0
        /\ hist.copies = 0 /\ hist.converts = 0

\* C10 witness: an empty stream whose buffer was pre-sized above zero.
C10_Witness ==
    /\ Success /\ hist.reads = 1 /\ hist.res = "Eof"
    /\ input.estimated_sample_count > 0 /\ output.cols = 0

\* C11: a container without an audio stream makes open fail with the
\* no-audio-stream error; the Output Buffer is allocated only once Input::open
\* has succeeded (stream found, format picked, decoder opened), and a failed
\* Input::open leaves an error, no Reader and no buffer.
C11_NoBufferBeforeInputOpens ==
    pc # "start" =>
        /\ (hist.file.opens /\ ~hist.file.audio) =>
              (pc = "open_failed" /\ result = Err("NoAudioStream"))
        /\ hist.allocs > 0 =>
              (hist.file = [opens |-> TRUE, audio |-> TRUE, formats |-> TRUE,
                            picked |-> TRUE, decoder |-> TRUE]
               /\ input.stream_id = "audio")
        /\ InputOpenResult(hist.file) # "Ok" =>
              /\ pc = "open_failed" /\ result.tag = "Err"
              /\ result.err \in SetupErrors
              /\ hist.allocs = 0 /\ output = Zeros(0, 0)

\* C11 witness: open has failed on a container that opens but has no audio stream.
C11_Witness ==
    /\ pc = "open_failed" /\ hist.file.opens /\ ~hist.file.audio
    /\ result = Err("NoAudioStream") /\ hist.allocs = 0

\* C12: finalizing is idempotent: after a successful read, applying
\* set_samples with the same total once more leaves the column count and every
\* sample in [0, total) of every channel as they are.
C12_FinalizeIdempotent ==
    Success =>
        LET again == set_samples(output, FinalSamples)
        IN  /\ again.cols = output.cols
            /\ again.cols = sample_count
            /\ \A c \in 0..(output.rows - 1), i \in 0..(sample_count - 1) :
                  At(again, c, i) = At(output, c, i)
            /\ again = output

\* C12 witness: a successful read that kept at least one decoded sample.
C12_Witness ==
    /\ Success /\ sample_count > 0 /\ output.cols = sample_count
    /\ \E c \in 0..(output.rows - 1) : At(output, c, 0) # 0

\* C13: for a received frame the steps come in this order: grow if needed,
\* rebuild the cursor at offset = valid count with length = capacity - valid
\* count, copy or convert, then add the frame's samples to the count.  The
\* cursor is rebuilt for every frame, so a copy never goes through a cursor
\* older than the last growth, and never through the initial null cursor.
C13_StepOrderAndFreshCursor ==
    /\ [](pc \in {"copy", "count"} =>
            /\ cursor.ptr # NullCursor(cursor.rows, output).ptr
            /\ cursor = shift_col_to(cursor, output, sample_count,
                                     output.cols - sample_count))
    /\ [][/\ (pc' = "grow") => (pc = "receive")
          /\ (pc = "grow") => (pc' = "shift")
          /\ (pc' = "shift") => (pc = "grow")
          /\ (pc = "shift") => (pc' = "copy")
          /\ (pc' = "copy") =>
                (pc = "shift"
                 /\ cursor' = shift_col_to(cursor, output', sample_count',
                                           output'.cols - sample_count'))
          /\ (pc' = "count") => (pc = "copy")
          /\ (pc = "count") =>
                (pc' = "receive" /\ sample_count' = sample_count + frame.nb_samples)
          /\ (sample_count' # sample_count) => (pc = "count")
          /\ (pc \in {"shift", "copy", "count"}) => (output'.cols = output.cols)
      ]_vars

\* C13 witness: a later frame is about to be copied through a cursor rebuilt
\* after a growth.
C13_Witness ==
    /\ pc = "copy" /\ sample_count > 0 /\ hist.grows > 0
    /\ cursor.ptr = sample_count * ColStride(output.rows, output.cols)
    /\ cursor.cols = frame.nb_samples

\* C14: at the growth step the capacity becomes exactly valid count + frame
\* samples when that sum exceeds it and stays as it is otherwise; while frames
\* are drained the capacity never decreases, and only finalize reduces it.
C14_GrowthRule ==
    /\ [][(pc = "grow") =>
             (output'.cols = IF sample_count + frame.nb_samples > output.cols
                             THEN sample_count + frame.nb_samples
                             ELSE output.cols)]_vars
    /\ [][(pc \in ReaderStates /\ pc # "finalize") =>
             (output'.cols >= output.cols)]_vars
    /\ [][(pc \in ReaderStates /\ output'.cols < output.cols) =>
             (pc = "finalize")]_vars
    /\ [][(pc \in ReaderStates /\ output'.cols # output.cols) =>
             (pc \in {"grow", "finalize"})]_vars

\* C14 witness: the buffer has grown twice and now holds exactly the valid
\* count plus the frame about to be copied.
C14_Witness ==
    /\ pc = "shift" /\ hist.grows = 2
    /\ output.cols = sample_count + frame.nb_samples
    /\ output.cols > input.estimated_sample_count

\* C15: once a packet of the selected stream has been submitted, frames are
\* received until the decoder answers Again on receive; the next packet read is
\* issued only then, so the decoder call that precedes going back to the packet
\* read is a receive that returned Again.
C15_DrainBeforeNextRead ==
    [][(pc \in {"send", "receive", "grow", "shift", "copy", "count"}
        /\ pc' = "packet_read") =>
          (pc = "receive" /\ hist'.call = "receive" /\ hist'.res = "Again")]_vars

\* C15 witness: the drain loop has ended on Again after at least one frame and
\* the next packet read is up.
C15_Witness ==
    /\ pc = "packet_read" /\ hist.call = "receive" /\ hist.res = "Again"
    /\ hist.sends > 0 /\ hist.recvs > 0

\* C16: Again from the packet read or from the submit neither ends the decode
\* nor is an error: after Again on the packet read another packet read follows
\* with the valid count and the buffer unchanged; after Again on the submit the
\* drain loop still runs, and when it ends the next packet read follows.
C16_AgainTolerated ==
    /\ [][(pc = "packet_read" /\ hist'.call = "read" /\ hist'.res = "Again") =>
             (pc' = "packet_read"
              /\ UNCHANGED <<sample_count, output, cursor, result>>)]_vars
    /\ [][(pc = "send" /\ hist'.call = "send" /\ hist'.res = "Again") =>
             (pc' = "receive"
              /\ UNCHANGED <<sample_count, output, cursor, result>>)]_vars
    /\ [][(pc = "receive" /\ hist'.call = "receive" /\ hist'.res = "Again") =>
             (pc' = "packet_read"
              /\ UNCHANGED <<sample_count, output, cursor, result>>)]_vars

\* C16 witness: the submit has just answered Again and the drain loop is up.
C16_Witness ==
    /\ pc = "receive" /\ hist.call = "send" /\ hist.res = "Again"
    /\ result = NoResult

\* The positions inside read's loop.
LoopStates ==
    {"packet_read", "stream_check", "send", "receive", "grow", "shift", "copy", "count"}

\* C17: with a demuxer that reports Eof or a fatal error after finitely many
\* packet reads and a decoder that answers Again on receive after finitely many
\* frames, read ends, finalized or with an error.  The loop is left only on an
\* Eof or a fatal error: as long as the demuxer answers the packet read with a
\* packet or with Again, read stays in its loop and does not return.
C17_ReadTerminates ==
    /\ (pc = "opened") ~> (pc = "returned")
    /\ [][(pc \in LoopStates /\ pc' \notin LoopStates) =>
             (/\ hist'.res \in {"Eof"} \cup FatalErrors
              /\ pc' = IF hist'.res = "Eof" THEN "finalize" ELSE "returned")]_vars
    /\ [][(pc = "packet_read" /\ hist'.call = "read") =>
             (pc' = CASE hist'.res = "Ok"    -> "stream_check"
                      [] hist'.res = "Again" -> "packet_read"
                      [] hist'.res = "Eof"   -> "finalize"
                      [] OTHER               -> "returned")]_vars
    /\ [][(pc = "finalize") => (pc' = "returned" /\ result' = Ok)]_vars

\* C17 witness: read has returned after the demuxer answered every packet read
\* the bound allows with a packet or Again, and then reported Eof.
C17_Witness ==
    /\ Success /\ hist.reads = MaxReads + 1
    /\ hist.call = "read" /\ hist.res = "Eof" /\ hist.recvs = MaxFrames

\* C18: FormatIter yields exactly the entries in front of the first sentinel,
\* in array order, each converted to its SampleFormat, and never the sentinel;
\* once at the sentinel it does not advance, and every later next returns None.
C18_FormatIterStopsAtSentinel ==
    pc = "iter" =>
        LET n == FirstSentinel(iter.array)
        IN  /\ iter.ptr = IF iter.calls + 1 < n THEN iter.calls + 1 ELSE n
            /\ iter.yielded = [i \in 1..(iter.ptr - 1) |-> SampleFormatFrom(iter.array[i])]
            /\ \A i \in 1..Len(iter.yielded) : iter.array[i] # Sentinel
            /\ iter.last = (IF iter.calls = 0 THEN "-"
                            ELSE IF iter.calls >= n THEN "None" ELSE "Some")
            /\ iter.last = "None" => (iter.ptr = n /\ Len(iter.yielded) = n - 1)

\* C18 witness: two formats were yielded, then next returned None twice.
C18_Witness ==
    /\ pc = "iter" /\ iter.last = "None"
    /\ Len(iter.yielded) = 2 /\ iter.calls = 4 /\ iter.ptr = 3
    /\ iter.yielded = <<"I16(Packed)", "F32(Packed)">>

\* C19: no packet is lost: a packet of the selected stream is accepted by the
\* decoder (its submit succeeds) before the next packet is read; a packet whose
\* submit answered Again is submitted again after the drain, not replaced by
\* the next packet read.  Stated at the step that ends the drain of a packet
\* whose submit was the last call before it: the submit had succeeded, or the
\* step does not lead to the next packet read.
C19_NoPacketLost ==
    [][(pc = "receive" /\ hist.call = "send" /\ packet = input.stream_id
        /\ pc' = "packet_read") =>
          (hist.res = "Ok")]_vars

\* C19 witness: a packet of the selected stream was accepted and drained, and
\* the next packet read is up.
C19_Witness ==
    /\ pc = "packet_read" /\ packet = "audio"
    /\ hist.call = "receive" /\ hist.res = "Again" /\ hist.sends = 1 /\ hist.reads = 1

\* C20: read returns success only after the demuxer's packet read reported
\* Eof: an Eof from the submit, from the receive or from the converter does
\* not by itself end the decode as a success.
C20_SuccessOnlyOnDemuxerEof ==
    /\ (pc = "finalize" \/ Success) => (hist.call = "read" /\ hist.res = "Eof")
    /\ (hist.res = "Eof" /\ hist.call \in {"send", "receive", "convert"}) =>
          ~(pc = "finalize" \/ Success)

\* C20 witness: read returned Ok right after the packet read reported Eof,
\* with frames decoded before.
C20_Witness ==
    /\ Success /\ hist.call = "read" /\ hist.res = "Eof"
    /\ hist.sends > 0 /\ sample_count > 0

====
